---- MODULE Spec2Model ----
(***************************************************************************)
(* A model of the GLINT2 grid engine: the mesh container (Grid), the mesh  *)
(* filter, the netCDF mesh codec, the signed-area routines and the sparse  *)
(* operator builder to_eigen_M.                                            *)
(*                                                                         *)
(* Representation.                                                         *)
(*  - A Dict<int,T> is a function from its keys to the stored objects.     *)
(*    The key is fixed when the object is inserted; the object's own       *)
(*    `index` field is a separate, mutable field.                          *)
(*  - A Vertex pointer held by a Cell is the Dict key under which the      *)
(*    Vertex object is stored (the object never moves while it is stored). *)
(*  - Coordinates and areas are doubles in the code; the model draws them  *)
(*    from small integer ranges, on which double arithmetic is exact.      *)
(***************************************************************************)
EXTENDS Integers, Sequences, FiniteSets, TLC

VARIABLES
    grid,       \* the Grid under construction
    grid2,      \* a second Grid, the target of a decode
    nc,         \* the record held by the netCDF file
    op,         \* the last Grid operation, its inputs and its outcome
    autoix,     \* last index auto-assigned to a successfully added cell / vertex
    poly,       \* geometry: the vertex list of the cell under study
    geo,        \* geometry: the last geometric computation and its result
    em,         \* to_eigen_M: position in the function and its locals
    io          \* codec: position in to_netcdf / read_from_netcdf, the open file

vars == <<grid, grid2, nc, op, autoix, poly, geo, em, io>>

---------------------------------------------------------------------------
(* Bounds of the model *)

MaxIndex == 1
MaxVertices == 2
MaxCells == 2
MaxCellSize == 2

(* Program constants *)

\* the "unassigned" index of an entity handed to add_cell / add_vertex
UnsetIndex == -1
\* the value filter_cells gives _max_realized_*_index before it scans
EmptyDomain == -1
\* _ncells_full / _nvertices_full before anything set them
UnsetCount == -1

---------------------------------------------------------------------------
(* Helpers *)

\* std::max
Max(a, b) == IF a >= b THEN a ELSE b

EmptyDict == [key \in {} |-> 0]

\* Dict::insert(key, value): stores value under key unless the key is taken;
\* second is false when the key already existed.
Dict_insert(dict, key, value) ==
    IF key \in DOMAIN dict
    THEN [dict |-> dict, second |-> FALSE]
    ELSE [dict |-> [k \in DOMAIN dict \cup {key} |->
                        IF k = key THEN value ELSE dict[k]],
          second |-> TRUE]

\* Dict::size()
Dict_size(dict) == Cardinality(DOMAIN dict)

\* Dict::sorted(): the stored objects (here: their keys) in ascending key order
RECURSIVE SortedKeys(_)
SortedKeys(S) ==
    IF S = {} THEN <<>>
    ELSE LET m == CHOOSE x \in S : \A y \in S : x <= y
         IN  <<m>> \o SortedKeys(S \ {m})

Dict_sorted(dict) == SortedKeys(DOMAIN dict)

Range(s) == {s[n] : n \in 1..Len(s)}

\* all sequences over S of length at most n
SeqsUpTo(S, n) == UNION {[1..m -> S] : m \in 0..n}

---------------------------------------------------------------------------
(* Grid: construction and accessors *)

\* Grid::Grid
Grid ==
    [_vertices |-> EmptyDict,
     _cells |-> EmptyDict,
     _max_realized_cell_index |-> 0,
     _max_realized_vertex_index |-> 0,
     _ncells_full |-> UnsetCount,
     _nvertices_full |-> UnsetCount]

ncells_realized(g) == Dict_size(g._cells)
nvertices_realized(g) == Dict_size(g._vertices)

\* the full-domain counts: the frozen count once set, the realized count before
ncells_full(g) ==
    IF g._ncells_full >= 0 THEN g._ncells_full ELSE ncells_realized(g)
nvertices_full(g) ==
    IF g._nvertices_full >= 0 THEN g._nvertices_full ELSE nvertices_realized(g)

\* the values of the grid's public field `parameterization`, which no
\* operation of the Grid modelled here assigns
Parameterizations == {"L0", "L1"}

\* ndata as it would be if it returned the cell count in every mode
ndata_cells(g, parameterization) == ncells_full(g)

\* Grid::ndata
ndata(g, parameterization) ==
    IF parameterization = "L1" THEN nvertices_full(g) ELSE ncells_full(g)

\* the index field of the Vertex a Cell's pointer refers to
vertex_index(g, ptr) == g._vertices[ptr].index

\* Grid::clear
clear(g) == [g EXCEPT !._vertices = EmptyDict, !._cells = EmptyDict]

\* add_cell as it would be with the next index taken past the largest one seen
add_cell_next_after_max(g, cell) ==
    LET index == IF cell.index = UnsetIndex THEN g._max_realized_cell_index + 1
                 ELSE cell.index
        g1 == [g EXCEPT !._max_realized_cell_index = Max(@, index)]
        ret == Dict_insert(g1._cells, index, [cell EXCEPT !.index = index])
    IN  [grid |-> [g1 EXCEPT !._cells = ret.dict],
         index |-> index,
         err |-> IF ret.second THEN "ok" ELSE "DuplicateIndex"]

\* Grid::add_cell.  The result carries the grid, the index used and whether
\* the call returned ("ok") or threw ("DuplicateIndex").
add_cell(g, cell) ==
    LET index == IF cell.index = UnsetIndex THEN Dict_size(g._cells)
                 ELSE cell.index
        g1 == [g EXCEPT !._max_realized_cell_index = Max(@, index)]
        ret == Dict_insert(g1._cells, index, [cell EXCEPT !.index = index])
    IN  [grid |-> [g1 EXCEPT !._cells = ret.dict],
         index |-> index,
         err |-> IF ret.second THEN "ok" ELSE "DuplicateIndex"]

\* Grid::add_vertex
add_vertex(g, vertex) ==
    LET index == IF vertex.index = UnsetIndex THEN Dict_size(g._vertices)
                 ELSE vertex.index
        g1 == [g EXCEPT !._max_realized_vertex_index = Max(@, index)]
        ret == Dict_insert(g1._vertices, index, [vertex EXCEPT !.index = index])
    IN  [grid |-> [g1 EXCEPT !._vertices = ret.dict],
         index |-> index,
         err |-> IF ret.second THEN "ok" ELSE "DuplicateIndex"]

\* the comparison as it would be if it looked at x alone
CmpVertexX(a, b) == (a.x - b.x) < 0

\* CmpVertexXY::operator()
CmpVertexXY(a, b) ==
    LET diff == a.x - b.x
    IN  IF diff < 0 THEN TRUE
        ELSE IF diff > 0 THEN FALSE
        ELSE (a.y - b.y) < 0

\* the orders std::sort may leave the vertex pointers in: every arrangement of
\* the stored vertices in which no later one compares less than an earlier one
SortedOrders(g) ==
    LET keys == DOMAIN g._vertices
        n == Cardinality(keys)
    IN  {s \in [1..n -> keys] :
            /\ \A a, b \in 1..n : a # b => s[a] # s[b]
            /\ \A a, b \in 1..n :
                   a < b => ~CmpVertexXY(g._vertices[s[b]], g._vertices[s[a]])}

\* Grid::sort_renumber_vertices, for the order the sort produced
sort_renumber_vertices(g, order) ==
    [g EXCEPT !._vertices =
        [key \in DOMAIN g._vertices |->
            [g._vertices[key] EXCEPT
                !.index = (CHOOSE n \in 1..Len(order) : order[n] = key) - 1]]]

\* the maximum a scan starting from EmptyDomain leaves
MaxFrom(start, S) ==
    IF S = {} THEN start
    ELSE Max(start, CHOOSE x \in S : \A y \in S : x >= y)

\* filter_cells as it would be without "Set counts so they won't change"
filter_cells_counts_not_set(g, include_cell) ==
    LET keep == {c \in DOMAIN g._cells : g._cells[c].index \in include_cell}
        good_vertices ==
            UNION {{vertex_index(g, g._cells[c].verts[n]) :
                        n \in 1..Len(g._cells[c].verts)} : c \in keep}
        keepv == {v \in DOMAIN g._vertices :
                        g._vertices[v].index \in good_vertices}
    IN  [_ncells_full |-> g._ncells_full,
         _nvertices_full |-> g._nvertices_full,
         _cells |-> [c \in keep |-> g._cells[c]],
         _max_realized_cell_index |->
            MaxFrom(EmptyDomain, {g._cells[c].index : c \in keep}),
         _vertices |-> [v \in keepv |-> g._vertices[v]],
         _max_realized_vertex_index |->
            MaxFrom(EmptyDomain, {g._vertices[v].index : v \in keepv})]

\* Grid::filter_cells; include_cell is the set of indices the predicate accepts
filter_cells(g, include_cell) ==
    LET full_c == ncells_full(g)
        full_v == nvertices_full(g)
        keep == {c \in DOMAIN g._cells : g._cells[c].index \in include_cell}
        good_vertices ==
            UNION {{vertex_index(g, g._cells[c].verts[n]) :
                        n \in 1..Len(g._cells[c].verts)} : c \in keep}
        keepv == {v \in DOMAIN g._vertices :
                        g._vertices[v].index \in good_vertices}
    IN  [_ncells_full |-> full_c,
         _nvertices_full |-> full_v,
         _cells |-> [c \in keep |-> g._cells[c]],
         _max_realized_cell_index |->
            MaxFrom(EmptyDomain, {g._cells[c].index : c \in keep}),
         _vertices |-> [v \in keepv |-> g._vertices[v]],
         _max_realized_vertex_index |->
            MaxFrom(EmptyDomain, {g._vertices[v].index : v \in keepv})]

---------------------------------------------------------------------------
(* Mesh codec *)

\* sprintf(buf, "%ld", n): the sign and the decimal digits, most significant first
RECURSIVE Digits(_)
Digits(n) == IF n < 10 THEN <<n>> ELSE Append(Digits(n \div 10), n % 10)

FormatLong(n) ==
    IF n < 0 THEN [neg |-> TRUE, digits |-> Digits(0 - n)]
    ELSE [neg |-> FALSE, digits |-> Digits(n)]

\* sscanf(s, "%ld", &n)
RECURSIVE DigitsValue(_)
DigitsValue(ds) ==
    IF ds = <<>> THEN 0
    ELSE 10 * DigitsValue(SubSeq(ds, 1, Len(ds) - 1)) + ds[Len(ds)]

ParseLong(s) == IF s.neg THEN 0 - DigitsValue(s.digits) ELSE DigitsValue(s.digits)

\* the loop of Grid::netcdf_define that counts the vertex references
RECURSIVE CountRefs(_, _)
CountRefs(g, cells) ==
    IF cells = {} THEN 0
    ELSE LET c == CHOOSE c \in cells : TRUE
         IN  Len(g._cells[c].verts) + CountRefs(g, cells \ {c})

\* Grid::netcdf_define: the attributes of <vname>.info and the dimensions
netcdf_define(g) ==
    LET nvref == CountRefs(g, DOMAIN g._cells)
    IN  [info |-> [cells_num_full |-> FormatLong(ncells_full(g)),
                   vertices_num_full |-> nvertices_full(g)],
         dims |-> [vertices_num_realized |-> nvertices_realized(g),
                   cells_num_realized |-> ncells_realized(g),
                   cells_num_realized_plus1 |-> ncells_realized(g) + 1,
                   cells_num_vertex_refs |-> nvref]]

\* one pass of the vertex loop of Grid::netcdf_write: entry i of
\* vertices.index and row i of vertices.xy
WriteVertex(g, key, out) ==
    LET vertex == g._vertices[key]
        point == <<vertex.x, vertex.y>>
    IN  [out EXCEPT !.vertices_index = Append(@, vertex.index),
                    !.vertices_xy = @ \o point]

RECURSIVE WriteVertices(_, _, _, _)
WriteVertices(g, vertices, n, out) ==
    IF n > Len(vertices) THEN out
    ELSE WriteVertices(g, vertices, n + 1, WriteVertex(g, vertices[n], out))

\* the cell pass as it would be with j written twice into the ijk row
WriteCell_ijj(g, key, out) ==
    LET cell == g._cells[key]
        ijk == <<cell.i, cell.j, cell.j>>
        ivref == Len(out.cells_vertex_refs)
    IN  [out EXCEPT
            !.cells_index = Append(@, cell.index),
            !.cells_ijk = @ \o ijk,
            !.cells_area = Append(@, cell.area),
            !.cells_vertex_refs_start = Append(@, ivref),
            !.cells_vertex_refs = @ \o
                [m \in 1..Len(cell.verts) |-> vertex_index(g, cell.verts[m])]]

\* one pass of the cell loop of Grid::netcdf_write; ivref is the number of
\* references written so far
WriteCell(g, key, out) ==
    LET cell == g._cells[key]
        ijk == <<cell.i, cell.j, cell.k>>
        ivref == Len(out.cells_vertex_refs)
    IN  [out EXCEPT
            !.cells_index = Append(@, cell.index),
            !.cells_ijk = @ \o ijk,
            !.cells_area = Append(@, cell.area),
            !.cells_vertex_refs_start = Append(@, ivref),
            !.cells_vertex_refs = @ \o
                [m \in 1..Len(cell.verts) |-> vertex_index(g, cell.verts[m])]]

\* the cell loop as it would be with the cell count written as the sentinel
RECURSIVE WriteCells_sentinel_i(_, _, _, _)
WriteCells_sentinel_i(g, cells, n, out) ==
    IF n > Len(cells)
    THEN [out EXCEPT !.cells_vertex_refs_start = Append(@, n - 1)]
    ELSE WriteCells_sentinel_i(g, cells, n + 1, WriteCell(g, cells[n], out))

\* the cell loop of Grid::netcdf_write and the sentinel written after it
RECURSIVE WriteCells(_, _, _, _)
WriteCells(g, cells, n, out) ==
    IF n > Len(cells)
    THEN [out EXCEPT !.cells_vertex_refs_start =
                        Append(@, Len(out.cells_vertex_refs))]
    ELSE WriteCells(g, cells, n + 1, WriteCell(g, cells[n], out))

\* netcdf_write as it would be with the cell count written as the sentinel
netcdf_write_sentinel_i(g) ==
    LET empty == [vertices_index |-> <<>>, vertices_xy |-> <<>>,
                  cells_index |-> <<>>, cells_ijk |-> <<>>, cells_area |-> <<>>,
                  cells_vertex_refs |-> <<>>, cells_vertex_refs_start |-> <<>>]
        vs == WriteVertices(g, Dict_sorted(g._vertices), 1, empty)
    IN  WriteCells_sentinel_i(g, Dict_sorted(g._cells), 1, vs)

\* Grid::netcdf_write: the values of the variables of the record
netcdf_write(g) ==
    LET empty == [vertices_index |-> <<>>, vertices_xy |-> <<>>,
                  cells_index |-> <<>>, cells_ijk |-> <<>>, cells_area |-> <<>>,
                  cells_vertex_refs |-> <<>>, cells_vertex_refs_start |-> <<>>]
        vs == WriteVertices(g, Dict_sorted(g._vertices), 1, empty)
    IN  WriteCells(g, Dict_sorted(g._cells), 1, vs)

\* Grid::to_netcdf: define, then run the writer
to_netcdf(g) ==
    LET gridd == netcdf_define(g)
    IN  [info |-> gridd.info, dims |-> gridd.dims, vars |-> netcdf_write(g)]

\* a cell's Vertex pointer that refers to no Vertex
NullVertex == -1000

\* Grid::get_vertex: the Vertex stored under the index, or the null pointer
get_vertex(g, index) ==
    IF index \in DOMAIN g._vertices THEN index ELSE NullVertex

\* the Vertex the vertex loop of Grid::read_from_netcdf assembles from entry
\* n (1-based) of the record
ReadVertex(rec, n) ==
    LET i == n - 1
    IN  [index |-> rec.vars.vertices_index[n],
         x |-> rec.vars.vertices_xy[i * 2 + 1],
         y |-> rec.vars.vertices_xy[i * 2 + 2]]

\* the vertex loop of Grid::read_from_netcdf; an exception thrown by
\* add_vertex ends the read
RECURSIVE ReadVertices(_, _, _)
ReadVertices(g, rec, n) ==
    IF n > Len(rec.vars.vertices_index) THEN [grid |-> g, err |-> "ok"]
    ELSE LET r == add_vertex(g, ReadVertex(rec, n))
         IN  IF r.err # "ok" THEN [grid |-> r.grid, err |-> r.err]
             ELSE ReadVertices(r.grid, rec, n + 1)

\* the Cell the cell loop of Grid::read_from_netcdf assembles from entry n
ReadCell(g, rec, n) ==
    LET i == n - 1
        vrefs == rec.vars.cells_vertex_refs
        vrefs_start == rec.vars.cells_vertex_refs_start
    IN  [index |-> rec.vars.cells_index[n],
         i |-> rec.vars.cells_ijk[i * 3 + 1],
         j |-> rec.vars.cells_ijk[i * 3 + 2],
         k |-> rec.vars.cells_ijk[i * 3 + 3],
         area |-> rec.vars.cells_area[n],
         verts |-> [m \in 1..(vrefs_start[n + 1] - vrefs_start[n]) |->
                        get_vertex(g, vrefs[vrefs_start[n] + m])]]

\* the cell loop of Grid::read_from_netcdf
RECURSIVE ReadCells(_, _, _)
ReadCells(g, rec, n) ==
    IF n > Len(rec.vars.cells_index) THEN [grid |-> g, err |-> "ok"]
    ELSE LET r == add_cell(g, ReadCell(g, rec, n))
         IN  IF r.err # "ok" THEN [grid |-> r.grid, err |-> r.err]
             ELSE ReadCells(r.grid, rec, n + 1)

\* Grid::read_from_netcdf
read_from_netcdf(g, rec) ==
    LET g0 == [clear(g) EXCEPT
                  !._ncells_full = ParseLong(rec.info.cells_num_full),
                  !._nvertices_full = rec.info.vertices_num_full]
        rv == ReadVertices(g0, rec, 1)
    IN  IF rv.err # "ok" THEN rv ELSE ReadCells(rv.grid, rec, 1)

---------------------------------------------------------------------------
(* Geometry algorithms *)

\* A double that is a multiple of 1/2 is held exactly, as num / den.
Dbl(n) == [num |-> n, den |-> 1]
\* ret *= .5
TimesHalf(n) == [num |-> n, den |-> 2]
DblEq(a, b) == a.num * b.den = b.num * a.den
DblNeg(a) == [num |-> 0 - a.num, den |-> a.den]

\* the for loop of area_of_polygon: it0, it1 are positions in the cell's vertex
\* list (1-based; Len(cell) + 1 is cell.end())
RECURSIVE AreaLoop(_, _, _, _)
AreaLoop(cell, it0, it1, ret) ==
    IF it1 = Len(cell) + 1 THEN [it0 |-> it0, ret |-> ret]
    ELSE AreaLoop(cell, it1, it1 + 1,
            ret + (cell[it0].x * cell[it1].y) - (cell[it1].x * cell[it0].y))

\* area_of_polygon as it would be without the edge from the last vertex back
\* to the first
area_of_polygon_open(cell) == TimesHalf(AreaLoop(cell, 1, 2, 0).ret)

\* area_of_polygon; cell is the list of the Vertex objects the cell points to,
\* with at least one vertex (cell.begin() is dereferenced)
area_of_polygon(cell) ==
    LET l == AreaLoop(cell, 1, 2, 0)
        it0 == l.it0
        it1 == 1
        ret == l.ret + (cell[it0].x * cell[it1].y) - (cell[it1].x * cell[it0].y)
    IN  TimesHalf(ret)

\* the coordinate transforms handed to area_of_proj_polygon
Projections == {"identity", "swap", "shear", "scale", "shift"}

\* Proj2::transform(x0, y0, x1, y1)
transform(proj, x, y) ==
    CASE proj = "identity" -> [x |-> x, y |-> y]
      [] proj = "swap"     -> [x |-> y, y |-> x]
      [] proj = "shear"    -> [x |-> x + y, y |-> y]
      [] proj = "scale"    -> [x |-> 2 * x, y |-> 3 * y]
      [] proj = "shift"    -> [x |-> x + 1, y |-> y + 2]

\* the for loop of area_of_proj_polygon: (x0, y0) is the previous transformed
\* vertex, calls counts the calls of proj.transform
RECURSIVE ProjAreaLoop(_, _, _, _, _, _, _)
ProjAreaLoop(cell, proj, it0, x0, y0, ret, calls) ==
    IF it0 = Len(cell) + 1 THEN [x0 |-> x0, y0 |-> y0, ret |-> ret, calls |-> calls]
    ELSE LET t == transform(proj, cell[it0].x, cell[it0].y)
             x1 == t.x
             y1 == t.y
         IN  ProjAreaLoop(cell, proj, it0 + 1, x1, y1,
                          ret + (x0 * y1) - (x1 * y0), calls + 1)

\* area_of_proj_polygon as it would be if the closing edge transformed the
\* first vertex a second time
area_of_proj_polygon_again(cell, proj) ==
    LET t00 == transform(proj, cell[1].x, cell[1].y)
        l == ProjAreaLoop(cell, proj, 2, t00.x, t00.y, 0, 1)
        t1 == transform(proj, cell[1].x, cell[1].y)
        ret == l.ret + (l.x0 * t1.y) - (t1.x * l.y0)
    IN  [ret |-> TimesHalf(ret), calls |-> l.calls + 1]

\* area_of_proj_polygon, with the number of times it called proj.transform
area_of_proj_polygon(cell, proj) ==
    LET t00 == transform(proj, cell[1].x, cell[1].y)
        x00 == t00.x
        y00 == t00.y
        l == ProjAreaLoop(cell, proj, 2, x00, y00, 0, 1)
        x1 == x00
        y1 == y00
        ret == l.ret + (l.x0 * y1) - (x1 * l.y0)
    IN  [ret |-> TimesHalf(ret), calls |-> l.calls]

\* a cell's pointer to no Cell
NullCell == NullVertex

\* Grid::get_cell: the Cell stored under the index, or the null pointer
get_cell(g, index) ==
    IF index \in DOMAIN g._cells THEN index ELSE NullCell

\* the Vertex objects a stored Cell points to, in the cell's order
CellVertices(g, cell) ==
    [m \in 1..Len(cell.verts) |-> g._vertices[cell.verts[m]]]

\* the for loop of Grid::centroid: v0, v1 are positions in the cell's vertex
\* list (1-based; Len(cell) + 1 is cell->end())
RECURSIVE CentroidLoop(_, _, _, _, _)
CentroidLoop(cell, v0, v1, Cx, Cy) ==
    IF v1 = Len(cell) + 1 THEN [v0 |-> v0, Cx |-> Cx, Cy |-> Cy]
    ELSE LET cross == (cell[v0].x * cell[v1].y) - (cell[v1].x * cell[v0].y)
         IN  CentroidLoop(cell, v1, v1 + 1,
                          Cx + (cell[v0].x + cell[v1].x) * cross,
                          Cy + (cell[v0].y + cell[v1].y) * cross)

\* Cx * fact with fact = 1.0 / (6.0 * A); the quotient of a division by zero
\* is kept with denominator 0 (not a finite double)
TimesFact(C, A) == [num |-> C * A.den, den |-> 6 * A.num]

\* Grid::centroid as it would be without "Do it for the last segment as well!"
centroid_open(g, parameterization, ix) ==
    IF parameterization = "L0"
    THEN LET cell == CellVertices(g, g._cells[get_cell(g, ix)])
             A == area_of_polygon(cell)
             l == CentroidLoop(cell, 1, 2, 0, 0)
         IN  [x |-> TimesFact(l.Cx, A), y |-> TimesFact(l.Cy, A)]
    ELSE LET vertex == g._vertices[get_vertex(g, ix)]
         IN  [x |-> Dbl(vertex.x), y |-> Dbl(vertex.y)]

\* Grid::centroid; parameterization is the grid's public field of that name,
\* which no operation of the Grid modelled here assigns
centroid(g, parameterization, ix) ==
    IF parameterization = "L0"
    THEN LET cell == CellVertices(g, g._cells[get_cell(g, ix)])
             A == area_of_polygon(cell)
             l == CentroidLoop(cell, 1, 2, 0, 0)
             v0 == l.v0
             v1 == 1
             cross == (cell[v0].x * cell[v1].y) - (cell[v1].x * cell[v0].y)
             Cx == l.Cx + (cell[v0].x + cell[v1].x) * cross
             Cy == l.Cy + (cell[v0].y + cell[v1].y) * cross
         IN  [x |-> TimesFact(Cx, A), y |-> TimesFact(Cy, A)]
    ELSE LET vertex == g._vertices[get_vertex(g, ix)]
         IN  [x |-> Dbl(vertex.x), y |-> Dbl(vertex.y)]

---------------------------------------------------------------------------
(* Grid: the dense vector of cell areas *)

\* std::numeric_limits<double>::quiet_NaN(), as the quotient 0 / 0
nan == [num |-> 0, den |-> 0]

\* the loop of Grid::get_native_areas over the cells not yet visited:
\* area.at(cell->index) = cell->area, which throws when the index is not a
\* position of the vector
RECURSIVE NativeAreasLoop(_, _, _)
NativeAreasLoop(g, cells, area) ==
    IF cells = <<>> THEN [err |-> "ok", area |-> area]
    ELSE LET cell == g._cells[Head(cells)]
         IN  IF cell.index \notin DOMAIN area
             THEN [err |-> "out_of_range", area |-> area]
             ELSE NativeAreasLoop(g, Tail(cells),
                                  [area EXCEPT ![cell.index] = Dbl(cell.area)])

\* get_native_areas as it would be with the vector filled with zeros
get_native_areas_zero_filled(g) ==
    NativeAreasLoop(g, Dict_sorted(g._cells),
                    [pos \in 0..(ncells_full(g) - 1) |-> Dbl(0)])

\* Grid::get_native_areas: the vector (positions counted from 0), or the
\* exception that ended the call
get_native_areas(g) ==
    NativeAreasLoop(g, Dict_sorted(g._cells),
                    [pos \in 0..(ncells_full(g) - 1) |-> nan])

---------------------------------------------------------------------------
(* The sparse operator builder, to_eigen_M *)

\* SparseSet: d2s lists the native (sparse) indices in dense order, dense
\* positions counted from 0; sparse_extent is unset (-1) until set
SparseSet_new == [d2s |-> <<>>, sparse_extent |-> -1]

SparseSet_in_sparse(dim, sparse) == \E n \in 1..Len(dim.d2s) : dim.d2s[n] = sparse

SparseSet_to_dense(dim, sparse) ==
    (CHOOSE n \in 1..Len(dim.d2s) : dim.d2s[n] = sparse) - 1

\* SparseSet::add_dense: the dense position of a native index, a new one (the
\* next free position) the first time the index is seen
SparseSet_add_dense(dim, sparse) ==
    IF SparseSet_in_sparse(dim, sparse) THEN dim
    ELSE [dim EXCEPT !.d2s = Append(@, sparse)]

SparseSet_set_sparse_extent(dim, extent) == [dim EXCEPT !.sparse_extent = extent]

\* MakeDenseEigenT::M.add under SparsifyTransform::ADD_DENSE: both indices are
\* converted through (and added to) the dimension maps, the triplet is appended
MakeDenseEigen_add(e, index, value) ==
    LET d1 == SparseSet_add_dense(e.dims[1], index[1])
        d2 == SparseSet_add_dense(e.dims[2], index[2])
    IN  [e EXCEPT !.dims = <<d1, d2>>,
                  !.BvA_m = Append(@, [index |-> <<SparseSet_to_dense(d1, index[1]),
                                                  SparseSet_to_dense(d2, index[2])>>,
                                       value |-> value])]

\* the sum of the values of the triplets at one dense position
RECURSIVE TripletSum(_, _)
TripletSum(triplets, index) ==
    IF triplets = <<>> THEN 0
    ELSE (IF Head(triplets).index = index THEN Head(triplets).value ELSE 0)
         + TripletSum(Tail(triplets), index)

\* MakeDenseEigenT::to_eigen: a matrix over the dense extents of the two
\* dimension maps; triplets at the same position are summed
MakeDenseEigen_to_eigen(e) ==
    LET nrow == Len(e.dims[1].d2s)
        ncol == Len(e.dims[2].d2s)
    IN  [shape |-> <<nrow, ncol>>,
         coeff |-> [ix \in (0..nrow - 1) \X (0..ncol - 1) |->
                        TripletSum(e.BvA_m, ix)]]

\* the copy pass as it would be if the generator's first element were stepped
\* over
to_eigen_M_copy_skip_first(e) ==
    LET ii == e.BvA.M[e.ii]
    IN  IF e.ii = 1 THEN [e EXCEPT !.ii = e.ii + 1]
        ELSE [MakeDenseEigen_add(e, ii.index, ii.value) EXCEPT !.ii = e.ii + 1]

\* to_eigen_M, one pass of "Copy elements to accumulator matrix"
to_eigen_M_copy(e) ==
    LET ii == e.BvA.M[e.ii]
    IN  [MakeDenseEigen_add(e, ii.index, ii.value) EXCEPT !.ii = e.ii + 1]

\* "Set overall size" as it would be with the dense extents
to_eigen_M_set_size_dense(e) ==
    [e EXCEPT !.dims = <<SparseSet_set_sparse_extent(e.dims[1], Len(e.dims[1].d2s)),
                         SparseSet_set_sparse_extent(e.dims[2], Len(e.dims[2].d2s))>>,
              !.pc = "size_set"]

\* to_eigen_M, "Set overall size"
to_eigen_M_set_size(e) ==
    LET BvA_shape == e.BvA.shape
    IN  [e EXCEPT !.dims = <<SparseSet_set_sparse_extent(e.dims[1], BvA_shape[1]),
                             SparseSet_set_sparse_extent(e.dims[2], BvA_shape[2])>>,
                  !.pc = "size_set"]

\* to_eigen_M, "return BvA_m.to_eigen()"
to_eigen_M_return(e) ==
    [e EXCEPT !.ret = <<MakeDenseEigen_to_eigen(e)>>, !.pc = "done"]

---------------------------------------------------------------------------
(* The Grid as a state machine *)

\* the coordinates a caller gives its vertices
Points == {<<0, 0>>, <<0, 1>>, <<1, 0>>}

\* the indices a caller passes: unset, or explicit
IndexInputs == {UnsetIndex} \cup 0..MaxIndex

\* the (i, j, k) tags and stored areas a caller gives its cells
CellTags == {[i |-> 0, j |-> 0, k |-> 0, area |-> 2],
             [i |-> 1, j |-> 2, k |-> 3, area |-> 3]}

NoOp == [name |-> "Grid", index |-> UnsetIndex, assigned |-> UnsetIndex,
         include_cell |-> {}, err |-> "ok"]

GridIdle ==
    /\ grid = Grid
    /\ grid2 = Grid
    /\ nc = <<>>
    /\ op = NoOp
    /\ autoix = [cell |-> UnsetIndex, vertex |-> UnsetIndex]

GeomIdle ==
    /\ poly = <<>>
    /\ geo = [name |-> "none", proj |-> "none", result |-> Dbl(0), calls |-> 0]

EigenIdle == em = [pc |-> "idle"]

CodecIdle == io = [pc |-> "idle"]

\* records the index given to a successful insertion that passed the unset index
NoteAuto(kind, requested, r, track) ==
    IF track /\ requested = UnsetIndex /\ r.err = "ok"
    THEN [autoix EXCEPT ![kind] = r.index]
    ELSE autoix

\* what op records of a call of add_cell / add_vertex: its outcome and, where
\* the specification tracks the indices, the index passed and the index used
CallOf(name, requested, r, track) ==
    IF track
    THEN [NoOp EXCEPT !.name = name, !.index = requested,
                      !.assigned = r.index, !.err = r.err]
    ELSE [NoOp EXCEPT !.name = name, !.err = r.err]

\* a caller adds a vertex while the grid is being built (the file not yet written)
AddVertex(track) ==
    \E index \in IndexInputs, p \in Points :
        /\ nc = <<>>
        /\ nvertices_realized(grid) < MaxVertices
        /\ LET r == add_vertex(grid, [index |-> index, x |-> p[1], y |-> p[2]])
           IN  /\ grid' = r.grid
               /\ op' = CallOf("add_vertex", index, r, track)
               /\ autoix' = NoteAuto("vertex", index, r, track)
        /\ UNCHANGED <<grid2, nc, poly, geo, em, io>>

\* a caller adds a cell over vertices of the grid
AddCell(track) ==
    \E index \in IndexInputs, tag \in CellTags,
       verts \in SeqsUpTo(DOMAIN grid._vertices, MaxCellSize) :
        /\ nc = <<>>
        /\ ncells_realized(grid) < MaxCells
        /\ LET r == add_cell(grid, [index |-> index, i |-> tag.i, j |-> tag.j,
                                    k |-> tag.k, area |-> tag.area,
                                    verts |-> verts])
           IN  /\ grid' = r.grid
               /\ op' = CallOf("add_cell", index, r, track)
               /\ autoix' = NoteAuto("cell", index, r, track)
        /\ UNCHANGED <<grid2, nc, poly, geo, em, io>>

FilterCells ==
    \E include_cell \in SUBSET (0..MaxIndex) :
        /\ grid' = filter_cells(grid, include_cell)
        /\ op' = [NoOp EXCEPT !.name = "filter_cells",
                              !.include_cell = include_cell]
        /\ UNCHANGED <<grid2, nc, autoix, poly, geo, em, io>>

SortRenumberVertices ==
    \E order \in SortedOrders(grid) :
        /\ grid' = sort_renumber_vertices(grid, order)
        /\ op' = [NoOp EXCEPT !.name = "sort_renumber_vertices"]
        /\ UNCHANGED <<grid2, nc, autoix, poly, geo, em, io>>

Clear ==
    /\ grid' = clear(grid)
    /\ op' = [NoOp EXCEPT !.name = "clear"]
    /\ UNCHANGED <<grid2, nc, autoix, poly, geo, em, io>>

\* a grid built by its caller and the record the codec wrote for it
SampleGrid ==
    LET g1 == add_vertex(Grid, [index |-> 0, x |-> 0, y |-> 0]).grid
        g2 == add_vertex(g1, [index |-> 1, x |-> 1, y |-> 0]).grid
    IN  add_cell(g2, [index |-> 1, i |-> 1, j |-> 2, k |-> 3, area |-> 3,
                      verts |-> <<0, 1>>]).grid

SampleRecords == {to_netcdf(SampleGrid), to_netcdf(Grid)}

\* the grid is loaded from a file written earlier
ReadFromNetcdf ==
    \E rec \in SampleRecords :
        LET r == read_from_netcdf(grid, rec)
        IN  /\ grid' = r.grid
            /\ op' = [NoOp EXCEPT !.name = "read_from_netcdf", !.err = r.err]
            /\ UNCHANGED <<grid2, nc, autoix, poly, geo, em, io>>

\* the built grid is written to the file
ToNetcdf ==
    /\ nc = <<>>
    /\ nc' = <<to_netcdf(grid)>>
    /\ op' = [NoOp EXCEPT !.name = "to_netcdf"]
    /\ UNCHANGED <<grid, grid2, autoix, poly, geo, em, io>>

\* the file is decoded into another Grid
ReadBack ==
    /\ nc # <<>>
    /\ op.name = "to_netcdf"
    /\ LET r == read_from_netcdf(grid2, nc[1])
       IN  /\ grid2' = r.grid
           /\ op' = [NoOp EXCEPT !.name = "read_from_netcdf", !.err = r.err]
    /\ UNCHANGED <<grid, nc, autoix, poly, geo, em, io>>

Init == GridIdle /\ GeomIdle /\ EigenIdle /\ CodecIdle

Next ==
    \/ AddVertex(FALSE)
    \/ AddCell(FALSE)
    \/ FilterCells
    \/ SortRenumberVertices
    \/ Clear
    \/ ReadFromNetcdf

\* every operation of the Grid, in any order
Spec == Init /\ [][Next]_vars

NextBuild ==
    \/ AddVertex(TRUE)
    \/ AddCell(TRUE)
    \/ ToNetcdf
    \/ ReadBack

\* a grid built by add_vertex / add_cell alone, then encoded and decoded
SpecBuild == Init /\ [][NextBuild]_vars

\* a caller asks for the dense vector of the stored cell areas
GetNativeAreas ==
    /\ LET r == get_native_areas(grid)
       IN  op' = [name |-> "get_native_areas", err |-> r.err, area |-> r.area]
    /\ UNCHANGED <<grid, grid2, nc, autoix, poly, geo, em, io>>

\* a caller asks for the size of the field vectors
Ndata ==
    \E parameterization \in Parameterizations :
        /\ op' = [name |-> "ndata", parameterization |-> parameterization,
                  ret |-> ndata(grid, parameterization)]
        /\ UNCHANGED <<grid, grid2, nc, autoix, poly, geo, em, io>>

NextQuery ==
    \/ AddVertex(FALSE)
    \/ AddCell(FALSE)
    \/ FilterCells
    \/ GetNativeAreas
    \/ Ndata

\* a grid built by add_vertex / add_cell and filtered, and what its readers
\* return
SpecQuery == Init /\ [][NextQuery]_vars

---------------------------------------------------------------------------
(* read_from_netcdf, pass by pass, on the files it may be handed *)

\* a grid with a vertex under each index of S
RECURSIVE BuildVertices(_, _)
BuildVertices(g, indices) ==
    IF indices = <<>> THEN g
    ELSE BuildVertices(
            add_vertex(g, [index |-> Head(indices), x |-> Head(indices), y |-> 1]).grid,
            Tail(indices))

\* the grid with one more cell, of unset index, for each vertex list of cs
RECURSIVE BuildCells(_, _, _)
BuildCells(g, cs, n) ==
    IF n > Len(cs) THEN g
    ELSE BuildCells(
            add_cell(g, [index |-> UnsetIndex, i |-> n, j |-> 0, k |-> 0,
                         area |-> n + 1, verts |-> cs[n]]).grid,
            cs, n + 1)

\* grids a caller builds: vertices under explicit indices, then cells over them
BuiltGrids ==
    UNION {{BuildCells(BuildVertices(Grid, SortedKeys(S)), cs, 1) :
                cs \in SeqsUpTo(SeqsUpTo(S, MaxCellSize), MaxCells)} :
           S \in {S \in SUBSET (0..MaxIndex) : Cardinality(S) <= MaxVertices}}

\* the files the codec writes for them, and the same files with one entry of
\* cells.vertex_refs changed
DecodeRecords ==
    LET written == {to_netcdf(g) : g \in BuiltGrids}
    IN  written \cup
        UNION {{[rec EXCEPT !.vars.cells_vertex_refs[pos] = v] :
                    pos \in 1..Len(rec.vars.cells_vertex_refs), v \in 0..MaxIndex} :
               rec \in written}

DecodeInit ==
    /\ grid = Grid
    /\ grid2 = Grid
    /\ op = NoOp
    /\ autoix = [cell |-> UnsetIndex, vertex |-> UnsetIndex]
    /\ nc \in {<<rec>> : rec \in DecodeRecords}
    /\ io = [pc |-> "read_info", i |-> 0, err |-> "ok"]

\* clear() and "Read the Basic Info"
ReadInfo ==
    /\ io.pc = "read_info"
    /\ grid2' = [clear(grid2) EXCEPT
                    !._ncells_full = ParseLong(nc[1].info.cells_num_full),
                    !._nvertices_full = nc[1].info.vertices_num_full]
    /\ io' = [io EXCEPT !.pc = "read_vertices", !.i = 0]
    /\ UNCHANGED <<grid, nc, op, autoix, poly, geo, em>>

\* one pass of "Assemble into vertices"; an exception of add_vertex ends the read
ReadVertexPass ==
    /\ io.pc = "read_vertices"
    /\ io.i < Len(nc[1].vars.vertices_index)
    /\ LET r == add_vertex(grid2, ReadVertex(nc[1], io.i + 1))
       IN  /\ grid2' = r.grid
           /\ io' = IF r.err = "ok" THEN [io EXCEPT !.i = io.i + 1]
                    ELSE [io EXCEPT !.pc = "done", !.err = r.err]
    /\ UNCHANGED <<grid, nc, op, autoix, poly, geo, em>>

\* the vertex loop ends, "Read the Cells" begins
ReadVerticesEnd ==
    /\ io.pc = "read_vertices"
    /\ io.i >= Len(nc[1].vars.vertices_index)
    /\ io' = [io EXCEPT !.pc = "read_cells", !.i = 0]
    /\ UNCHANGED <<grid, grid2, nc, op, autoix, poly, geo, em>>

\* one pass of "Assemble into Cells"
ReadCellPass ==
    /\ io.pc = "read_cells"
    /\ io.i < Len(nc[1].vars.cells_index)
    /\ LET r == add_cell(grid2, ReadCell(grid2, nc[1], io.i + 1))
       IN  /\ grid2' = r.grid
           /\ io' = IF r.err = "ok" THEN [io EXCEPT !.i = io.i + 1]
                    ELSE [io EXCEPT !.pc = "done", !.err = r.err]
    /\ UNCHANGED <<grid, nc, op, autoix, poly, geo, em>>

\* the cell loop ends, read_from_netcdf returns
ReadCellsEnd ==
    /\ io.pc = "read_cells"
    /\ io.i >= Len(nc[1].vars.cells_index)
    /\ io' = [io EXCEPT !.pc = "done"]
    /\ UNCHANGED <<grid, grid2, nc, op, autoix, poly, geo, em>>

NextDecode ==
    \/ ReadInfo
    \/ ReadVertexPass
    \/ ReadVerticesEnd
    \/ ReadCellPass
    \/ ReadCellsEnd

InitDecode == DecodeInit /\ GeomIdle /\ EigenIdle

\* read_from_netcdf run on every file within the bounds
SpecDecode == InitDecode /\ [][NextDecode]_vars

---------------------------------------------------------------------------
(* to_netcdf, statement by statement *)

\* the variables netcdf_define adds to the file
DeclaredVars ==
    {"vertices_index", "vertices_xy", "cells_index", "cells_ijk", "cells_area",
     "cells_vertex_refs", "cells_vertex_refs_start"}

\* the values of a file nothing was written to
NoValues ==
    [vertices_index |-> <<>>, vertices_xy |-> <<>>,
     cells_index |-> <<>>, cells_ijk |-> <<>>, cells_area |-> <<>>,
     cells_vertex_refs |-> <<>>, cells_vertex_refs_start |-> <<>>]

\* on entry of to_netcdf: no file yet
EncodeEntry ==
    [pc |-> "open", is_open |-> FALSE, info |-> <<>>, dims |-> <<>>,
     declared |-> {}, out |-> NoValues, bound |-> FALSE, runs |-> 0, i |-> 0,
     err |-> "ok"]

\* NcFile nc(fname, NcFile::Replace)
NcFile_open(e) == [e EXCEPT !.is_open = TRUE]

\* NcFile::close(), also run by the destructor of the NcFile
NcFile_close(e) == [e EXCEPT !.is_open = FALSE]

\* the define phase as it would be if it added the dimensions alone
to_netcdf_define_dims_only(e, g) ==
    LET gridd == netcdf_define(g)
    IN  [e EXCEPT !.info = <<gridd.info>>, !.dims = <<gridd.dims>>,
                  !.bound = TRUE, !.pc = "gridd"]

\* auto gridd = netcdf_define(nc, "grid"): the attributes, the dimensions and
\* the variables are added to the file, the writer is bound and returned
to_netcdf_define(e, g) ==
    LET gridd == netcdf_define(g)
    IN  [e EXCEPT !.info = <<gridd.info>>, !.dims = <<gridd.dims>>,
                  !.declared = DeclaredVars, !.bound = TRUE, !.pc = "gridd"]

\* gridd(): the bound netcdf_write starts
to_netcdf_gridd(e) ==
    [e EXCEPT !.runs = e.runs + 1, !.i = 0, !.pc = "write_vertices"]

ToNetcdfOpen ==
    /\ io.pc = "open"
    /\ io' = [NcFile_open(io) EXCEPT !.pc = "define"]
    /\ UNCHANGED <<grid, grid2, nc, op, autoix, poly, geo, em>>

ToNetcdfDefine ==
    /\ io.pc = "define"
    /\ io' = to_netcdf_define(io, grid)
    /\ UNCHANGED <<grid, grid2, nc, op, autoix, poly, geo, em>>

ToNetcdfGridd ==
    /\ io.pc = "gridd"
    /\ io.bound
    /\ io' = to_netcdf_gridd(io)
    /\ UNCHANGED <<grid, grid2, nc, op, autoix, poly, geo, em>>

\* one pass of the vertex loop of netcdf_write
WriteVertexPass ==
    /\ io.pc = "write_vertices"
    /\ io.i < nvertices_realized(grid)
    /\ io' = [io EXCEPT
                !.out = WriteVertex(grid, Dict_sorted(grid._vertices)[io.i + 1], @),
                !.i = io.i + 1]
    /\ UNCHANGED <<grid, grid2, nc, op, autoix, poly, geo, em>>

WriteVerticesEnd ==
    /\ io.pc = "write_vertices"
    /\ io.i >= nvertices_realized(grid)
    /\ io' = [io EXCEPT !.pc = "write_cells", !.i = 0]
    /\ UNCHANGED <<grid, grid2, nc, op, autoix, poly, geo, em>>

\* one pass of the cell loop of netcdf_write
WriteCellPass ==
    /\ io.pc = "write_cells"
    /\ io.i < ncells_realized(grid)
    /\ io' = [io EXCEPT
                !.out = WriteCell(grid, Dict_sorted(grid._cells)[io.i + 1], @),
                !.i = io.i + 1]
    /\ UNCHANGED <<grid, grid2, nc, op, autoix, poly, geo, em>>

\* the cell loop ends, the sentinel is written and the writer returns
WriteSentinel ==
    /\ io.pc = "write_cells"
    /\ io.i >= ncells_realized(grid)
    /\ io' = [io EXCEPT
                !.out.cells_vertex_refs_start =
                    Append(@, Len(io.out.cells_vertex_refs)),
                !.pc = "close"]
    /\ UNCHANGED <<grid, grid2, nc, op, autoix, poly, geo, em>>

\* the data-population phase fails partway: an exception leaves the writer
\* and to_netcdf, which has no handler
WriterThrows ==
    /\ io.pc \in {"write_vertices", "write_cells"}
    /\ io' = [io EXCEPT !.pc = "unwind", !.err = "exception"]
    /\ UNCHANGED <<grid, grid2, nc, op, autoix, poly, geo, em>>

\* nc.close()
ToNetcdfClose ==
    /\ io.pc = "close"
    /\ io' = [NcFile_close(io) EXCEPT !.pc = "return"]
    /\ UNCHANGED <<grid, grid2, nc, op, autoix, poly, geo, em>>

\* to_netcdf is left, by return or by the exception: the NcFile is destroyed
ToNetcdfLeave ==
    /\ io.pc \in {"return", "unwind"}
    /\ io' = [NcFile_close(io) EXCEPT !.pc = "returned"]
    /\ UNCHANGED <<grid, grid2, nc, op, autoix, poly, geo, em>>

NextEncode ==
    \/ ToNetcdfOpen
    \/ ToNetcdfDefine
    \/ ToNetcdfGridd
    \/ WriteVertexPass
    \/ WriteVerticesEnd
    \/ WriteCellPass
    \/ WriteSentinel
    \/ WriterThrows
    \/ ToNetcdfClose
    \/ ToNetcdfLeave

EncodeInit ==
    /\ grid \in BuiltGrids
    /\ grid2 = Grid
    /\ nc = <<>>
    /\ op = NoOp
    /\ autoix = [cell |-> UnsetIndex, vertex |-> UnsetIndex]
    /\ io = EncodeEntry

InitEncode == EncodeInit /\ GeomIdle /\ EigenIdle

\* to_netcdf run on every grid within the bounds; the function is sequential
\* code, so a statement that can execute does
SpecEncode == InitEncode /\ [][NextEncode]_vars /\ WF_vars(NextEncode)

---------------------------------------------------------------------------
(* netcdf_define called by a caller that runs the returned writer later *)

\* the caller holds an open file and a grid with room for one more cell
DeferInit ==
    /\ grid \in {g \in BuiltGrids : ncells_realized(g) < MaxCells}
    /\ grid2 = Grid
    /\ nc = <<>>
    /\ op = NoOp
    /\ autoix = [cell |-> UnsetIndex, vertex |-> UnsetIndex]
    /\ io = [NcFile_open(EncodeEntry) EXCEPT !.pc = "define"]

\* Grid operations the caller performs while it holds the writer
DeferredAddVertex == io.pc = "gridd" /\ AddVertex(FALSE)

DeferredAddCell == io.pc = "gridd" /\ AddCell(FALSE)

DeferredFilterCells == io.pc = "gridd" /\ FilterCells

NextDefer ==
    \/ ToNetcdfDefine
    \/ DeferredAddVertex
    \/ DeferredAddCell
    \/ DeferredFilterCells
    \/ ToNetcdfGridd
    \/ WriteVertexPass
    \/ WriteVerticesEnd
    \/ WriteCellPass
    \/ WriteSentinel

InitDefer == DeferInit /\ GeomIdle /\ EigenIdle

\* netcdf_define, any Grid operations, then the writer
SpecDefer == InitDefer /\ [][NextDefer]_vars

---------------------------------------------------------------------------
(* The geometry routines applied to a cell *)

MaxPolySize == 4
MaxPolyX == 2
MaxPolyY == 1

PolyPoints == {[x |-> x, y |-> y] : x \in 0..MaxPolyX, y \in 0..MaxPolyY}

\* the vertex lists of the cells handed to the routines
Polygons == UNION {[1..n -> PolyPoints] : n \in 1..MaxPolySize}

GeomInit ==
    /\ poly \in Polygons
    /\ geo = [name |-> "none", proj |-> "none", result |-> Dbl(0), calls |-> 0]

AreaOfPolygon ==
    /\ geo' = [name |-> "area_of_polygon", proj |-> "none",
               result |-> area_of_polygon(poly), calls |-> 0]
    /\ UNCHANGED <<grid, grid2, nc, op, autoix, poly, em, io>>

AreaOfProjPolygon ==
    \E proj \in Projections :
        LET r == area_of_proj_polygon(poly, proj)
        IN  /\ geo' = [name |-> "area_of_proj_polygon", proj |-> proj,
                       result |-> r.ret, calls |-> r.calls]
            /\ UNCHANGED <<grid, grid2, nc, op, autoix, poly, em, io>>

\* the grid that holds the cell under study alone: its vertices in the cell's
\* order under the indices 0..n-1, and the cell under index 0
RECURSIVE AddPolyVertices(_, _, _)
AddPolyVertices(g, pts, n) ==
    IF n > Len(pts) THEN g
    ELSE AddPolyVertices(
            add_vertex(g, [index |-> UnsetIndex, x |-> pts[n].x, y |-> pts[n].y]).grid,
            pts, n + 1)

GridOfCell(pts) ==
    add_cell(AddPolyVertices(Grid, pts, 1),
             [index |-> UnsetIndex, i |-> 0, j |-> 0, k |-> 0, area |-> 0,
              verts |-> [m \in 1..Len(pts) |-> m - 1]]).grid

\* centroid(ix) for the cell (L0) or for one of its vertices (L1)
Centroid ==
    \E parameterization \in Parameterizations, ix \in 0..(Len(poly) - 1) :
        /\ parameterization = "L0" => ix = 0
        /\ LET r == centroid(GridOfCell(poly), parameterization, ix)
           IN  geo' = [name |-> "centroid", parameterization |-> parameterization,
                       ix |-> ix, x |-> r.x, y |-> r.y]
        /\ UNCHANGED <<grid, grid2, nc, op, autoix, poly, em, io>>

NextGeom == AreaOfPolygon \/ AreaOfProjPolygon \/ Centroid

\* the area routines applied to every cell within the bounds
InitGeom == GridIdle /\ GeomInit /\ EigenIdle /\ CodecIdle

SpecGeom == InitGeom /\ [][NextGeom]_vars

---------------------------------------------------------------------------
(* to_eigen_M applied to a weighted operator *)

MaxTriples == 3
MaxWeight == 3

NativeRows == {0, 1}
NativeCols == {0, 2}
\* the declared native shapes of the operator
Shapes == {<<3, 4>>, <<2, 3>>}

Triples == {[index |-> <<r, c>>, value |-> w] :
                r \in NativeRows, c \in NativeCols, w \in 1..MaxWeight}

\* on entry: the operator BvA, two empty dimension maps, an empty accumulator
EigenInit ==
    \E M \in SeqsUpTo(Triples, MaxTriples), shape \in Shapes :
        em = [pc |-> "copy",
              BvA |-> [M |-> M, shape |-> shape],
              ii |-> 1,
              dims |-> <<SparseSet_new, SparseSet_new>>,
              BvA_m |-> <<>>,
              ret |-> <<>>]

ToEigenMCopy ==
    /\ em.pc = "copy"
    /\ em.ii <= Len(em.BvA.M)
    /\ em' = to_eigen_M_copy(em)
    /\ UNCHANGED <<grid, grid2, nc, op, autoix, poly, geo, io>>

ToEigenMSetSize ==
    /\ em.pc = "copy"
    /\ em.ii > Len(em.BvA.M)
    /\ em' = to_eigen_M_set_size(em)
    /\ UNCHANGED <<grid, grid2, nc, op, autoix, poly, geo, io>>

ToEigenMReturn ==
    /\ em.pc = "size_set"
    /\ em' = to_eigen_M_return(em)
    /\ UNCHANGED <<grid, grid2, nc, op, autoix, poly, geo, io>>

NextEigen == ToEigenMCopy \/ ToEigenMSetSize \/ ToEigenMReturn

InitEigen == GridIdle /\ GeomIdle /\ EigenInit /\ CodecIdle

\* to_eigen_M run on every operator within the bounds
SpecEigen == InitEigen /\ [][NextEigen]_vars

---------------------------------------------------------------------------
(* Properties *)

\* the vertices of a grid as Dict::sorted() lists them
VertexList(g) ==
    LET sorted == Dict_sorted(g._vertices)
    IN  [n \in 1..Len(sorted) |-> g._vertices[sorted[n]]]

\* the cells of a grid as Dict::sorted() lists them, each with the Vertex
\* objects it points to
CellList(g) ==
    LET sorted == Dict_sorted(g._cells)
    IN  [n \in 1..Len(sorted) |->
            LET cell == g._cells[sorted[n]]
            IN  [index |-> cell.index, i |-> cell.i, j |-> cell.j, k |-> cell.k,
                 area |-> cell.area,
                 verts |-> [m \in 1..Len(cell.verts) |->
                                g._vertices[cell.verts[m]]]]]

\* C1: a grid built by add_vertex / add_cell, written by to_netcdf and read
\* back into another Grid, gives a grid with the same vertices (index, x, y)
\* and the same cells (index, i, j, k, area and the ordered vertex list),
\* both compared in index order.
C1_RoundTrip ==
    (op.name = "read_from_netcdf") =>
        /\ op.err = "ok"
        /\ VertexList(grid2) = VertexList(grid)
        /\ CellList(grid2) = CellList(grid)

\* C1 witness: a decoded grid of two cells, one listing two vertices in
\* descending index order
C1_Witness ==
    /\ op.name = "read_from_netcdf"
    /\ ncells_realized(grid) = 2
    /\ nvertices_realized(grid2) = 2
    /\ \E c \in DOMAIN grid2._cells : grid2._cells[c].verts = <<1, 0>>
    /\ \E c \in DOMAIN grid2._cells : grid2._cells[c].k = 3

\* C2: after filter_cells(P) the cells are exactly the earlier cells whose
\* index satisfies P, and the vertices are exactly those the remaining cells
\* refer to.
C2_FilterIntegrity ==
    [][op'.name = "filter_cells" =>
        /\ grid'._cells =
             [c \in {c \in DOMAIN grid._cells :
                        grid._cells[c].index \in op'.include_cell} |->
                 grid._cells[c]]
        /\ DOMAIN grid'._vertices =
             UNION {Range(grid'._cells[c].verts) : c \in DOMAIN grid'._cells}
        /\ \A v \in DOMAIN grid'._vertices :
             grid'._vertices[v] = grid._vertices[v]]_vars

\* C3: filter_cells leaves ncells_full() and nvertices_full() as they were.
C3_FullCountsUnchanged ==
    [][op'.name = "filter_cells" =>
        /\ ncells_full(grid') = ncells_full(grid)
        /\ nvertices_full(grid') = nvertices_full(grid)]_vars

\* C3 witness: filter_cells has removed cells and vertices and the full counts
\* still count them
C3_Witness ==
    /\ op.name = "filter_cells"
    /\ ncells_realized(grid) = 0
    /\ ncells_full(grid) = 2
    /\ nvertices_realized(grid) < nvertices_full(grid)

\* C4: a duplicate explicit index is refused, so no two realized cells and no
\* two realized vertices have the same index.
C4_UniqueIndices ==
    /\ \A a, b \in DOMAIN grid._cells :
            a # b => grid._cells[a].index # grid._cells[b].index
    /\ \A a, b \in DOMAIN grid._vertices :
            a # b => grid._vertices[a].index # grid._vertices[b].index

AddNames == {"add_cell", "add_vertex"}

\* C5 as stated: every insertion with the index unset succeeds, with an
\* index above the one auto-assigned before it.
C5_AutoNeverCollides ==
    [][(op'.name \in AddNames /\ op'.index = UnsetIndex) =>
        /\ op'.err = "ok"
        /\ op'.name = "add_cell" => op'.assigned > autoix.cell
        /\ op'.name = "add_vertex" => op'.assigned > autoix.vertex]_vars

\* C5 amended: an insertion with the index unset uses the collection's size as
\* its index; it fails with DuplicateIndex exactly when that index is taken
\* (by an explicit index), and when it succeeds the index is above the one
\* auto-assigned before it.
C5_AutoIsSize ==
    [][(op'.name \in AddNames /\ op'.index = UnsetIndex) =>
        LET dict == IF op'.name = "add_cell" THEN grid._cells ELSE grid._vertices
            last == IF op'.name = "add_cell" THEN autoix.cell ELSE autoix.vertex
        IN  /\ op'.assigned = Dict_size(dict)
            /\ (op'.err = "DuplicateIndex") <=> (Dict_size(dict) \in DOMAIN dict)
            /\ (op'.err = "ok") => op'.assigned > last]_vars

\* C5 witness: an insertion with the index unset has failed
C5_Witness ==
    /\ op.name = "add_cell"
    /\ op.index = UnsetIndex
    /\ op.err = "DuplicateIndex"
    /\ op.assigned = 1

\* the largest index field among the stored objects of a Dict
MaxIndexOf(dict) ==
    CHOOSE x \in {dict[key].index : key \in DOMAIN dict} :
        \A key \in DOMAIN dict : x >= dict[key].index

\* C6: _max_realized_cell_index / _max_realized_vertex_index is the largest
\* index among the realized cells / vertices, and -1 when filter_cells left
\* none.
C6_MaxRealizedIndex ==
    /\ DOMAIN grid._cells # {} =>
            grid._max_realized_cell_index = MaxIndexOf(grid._cells)
    /\ DOMAIN grid._vertices # {} =>
            grid._max_realized_vertex_index = MaxIndexOf(grid._vertices)
    /\ (op.name = "filter_cells" /\ DOMAIN grid._cells = {}) =>
            grid._max_realized_cell_index = EmptyDomain
    /\ (op.name = "filter_cells" /\ DOMAIN grid._vertices = {}) =>
            grid._max_realized_vertex_index = EmptyDomain

\* position of the first occurrence of v in seq
FirstPos(seq, v) ==
    CHOOSE n \in 1..Len(seq) : seq[n] = v /\ \A m \in 1..(n - 1) : seq[m] # v

\* the native indices of the triples on one axis, in stream order
NativeAxis(M, axis) == [n \in 1..Len(M) |-> M[n].index[axis]]

\* d2s lists exactly the values of seq, in the order they first occur
FirstSeenOrder(d2s, seq) ==
    /\ Range(d2s) = Range(seq)
    /\ \A a, b \in 1..Len(d2s) :
            a < b => FirstPos(seq, d2s[a]) < FirstPos(seq, d2s[b])

\* the sum of the weights of the triples of one native pair
RECURSIVE WeightSum(_, _)
WeightSum(M, pair) ==
    IF M = <<>> THEN 0
    ELSE WeightSum(SubSeq(M, 1, Len(M) - 1), pair)
         + (IF M[Len(M)].index = pair THEN M[Len(M)].value ELSE 0)

ExampleTriples ==
    <<[index |-> <<0, 0>>, value |-> 2],
      [index |-> <<0, 0>>, value |-> 3],
      [index |-> <<1, 2>>, value |-> 1]>>

\* C7: to_eigen_M gives each axis dense positions 0..n-1 in first-seen order
\* of the native indices, and the matrix entry of a native pair is the sum of
\* the weights of its triples.
C7_DenseAccumulation ==
    (em.pc = "done") =>
        LET M == em.BvA.M
            rows == NativeAxis(M, 1)
            cols == NativeAxis(M, 2)
            mat == em.ret[1]
        IN  /\ FirstSeenOrder(em.dims[1].d2s, rows)
            /\ FirstSeenOrder(em.dims[2].d2s, cols)
            /\ mat.shape = <<Cardinality(Range(rows)), Cardinality(Range(cols))>>
            /\ \A r \in Range(rows), c \in Range(cols) :
                    mat.coeff[<<SparseSet_to_dense(em.dims[1], r),
                                SparseSet_to_dense(em.dims[2], c)>>]
                        = WeightSum(M, <<r, c>>)
            /\ (M = ExampleTriples) =>
                    /\ mat.shape = <<2, 2>>
                    /\ mat.coeff[<<0, 0>>] = 5
                    /\ mat.coeff[<<1, 1>>] = 1

\* C7 witness: to_eigen_M has returned for the triples (0,0,2), (0,0,3), (1,2,1)
C7_Witness ==
    /\ em.pc = "done"
    /\ em.BvA.M = ExampleTriples
    /\ em.ret[1].coeff[<<0, 0>>] = 5

\* C8: once to_eigen_M has set the sizes, the sparse extent of each dimension
\* map is the declared native shape on its axis, whatever indices appeared;
\* the extents are still unset while triples are being copied.
C8_SparseExtents ==
    /\ (em.pc \in {"size_set", "done"}) =>
            /\ em.dims[1].sparse_extent = em.BvA.shape[1]
            /\ em.dims[2].sparse_extent = em.BvA.shape[2]
            /\ Len(em.BvA_m) = Len(em.BvA.M)
    /\ (em.pc = "copy") =>
            /\ em.dims[1].sparse_extent = SparseSet_new.sparse_extent
            /\ em.dims[2].sparse_extent = SparseSet_new.sparse_extent

\* C8 witness: to_eigen_M has returned for an operator of shape (3, 4) of
\* which one native row and one native column appeared
C8_Witness ==
    /\ em.pc = "done"
    /\ em.BvA.shape = <<3, 4>>
    /\ Len(em.dims[1].d2s) = 1
    /\ Len(em.dims[2].d2s) = 1
    /\ em.dims[1].sparse_extent = 3

\* Surveyor's formula: the sum over i in 0..n-1 of x_i*y_(i+1) - x_(i+1)*y_i,
\* indices modulo n, from term i on
RECURSIVE SurveyorSum(_, _)
SurveyorSum(pts, i) ==
    IF i = Len(pts) THEN 0
    ELSE LET a == pts[i + 1]
             b == pts[((i + 1) % Len(pts)) + 1]
         IN  (a.x * b.y - b.x * a.y) + SurveyorSum(pts, i + 1)

Surveyor(pts) == [num |-> SurveyorSum(pts, 0), den |-> 2]

\* the vertex list started k places later
Rotated(pts, k) == [n \in 1..Len(pts) |-> pts[((n - 1 + k) % Len(pts)) + 1]]

Reversed(pts) == [n \in 1..Len(pts) |-> pts[Len(pts) + 1 - n]]

UnitSquare ==
    <<[x |-> 0, y |-> 0], [x |-> 1, y |-> 0], [x |-> 1, y |-> 1], [x |-> 0, y |-> 1]>>

UnitSquare2 ==
    <<[x |-> 1, y |-> 0], [x |-> 2, y |-> 0], [x |-> 2, y |-> 1], [x |-> 1, y |-> 1]>>

\* C9: for a cell of n >= 1 vertices area_of_polygon returns half the
\* Surveyor sum, wrap-around edge included; the result is the same for every
\* rotation of the vertex list, the opposite for the reversed list, and 1 for
\* the square (0,0),(1,0),(1,1),(0,1).
C9_AreaOfPolygon ==
    (geo.name = "area_of_polygon") =>
        /\ DblEq(geo.result, Surveyor(poly))
        /\ \A k \in 0..(Len(poly) - 1) :
                DblEq(area_of_polygon(Rotated(poly, k)), geo.result)
        /\ DblEq(area_of_polygon(Reversed(poly)), DblNeg(geo.result))
        /\ (poly = UnitSquare) => DblEq(geo.result, Dbl(1))

\* C9 witness: area_of_polygon has returned 1 for the unit square
C9_Witness ==
    /\ geo.name = "area_of_polygon"
    /\ poly = UnitSquare
    /\ DblEq(geo.result, Dbl(1))

RECURSIVE CentroidSumX(_, _)
CentroidSumX(pts, i) ==
    IF i = Len(pts) THEN 0
    ELSE LET a == pts[i + 1]
             b == pts[((i + 1) % Len(pts)) + 1]
         IN  (a.x + b.x) * (a.x * b.y - b.x * a.y) + CentroidSumX(pts, i + 1)

RECURSIVE CentroidSumY(_, _)
CentroidSumY(pts, i) ==
    IF i = Len(pts) THEN 0
    ELSE LET a == pts[i + 1]
             b == pts[((i + 1) % Len(pts)) + 1]
         IN  (a.y + b.y) * (a.x * b.y - b.x * a.y) + CentroidSumY(pts, i + 1)

\* 6 * A * c for the doubles A and c
SixTimes(A, c) == [num |-> 6 * A.num * c.num, den |-> A.den * c.den]

\* C11: on an L0 grid centroid(ix) of a cell with signed area A # 0 returns
\* (Cx, Cy) with 6*A*Cx and 6*A*Cy equal to the vertex-pair sums, wrap-around
\* pair included, so the square (0,0),(1,0),(1,1),(0,1) has centroid
\* (0.5, 0.5); on an L1 grid it returns the coordinates of vertex ix.
C11_Centroid ==
    (geo.name = "centroid") =>
        /\ (geo.parameterization = "L0" /\ Surveyor(poly).num # 0) =>
                /\ DblEq(SixTimes(Surveyor(poly), geo.x), Dbl(CentroidSumX(poly, 0)))
                /\ DblEq(SixTimes(Surveyor(poly), geo.y), Dbl(CentroidSumY(poly, 0)))
                /\ geo.x.den # 0 /\ geo.y.den # 0
                /\ (poly = UnitSquare) =>
                        /\ DblEq(geo.x, TimesHalf(1))
                        /\ DblEq(geo.y, TimesHalf(1))
        /\ (geo.parameterization = "L1") =>
                /\ geo.x = Dbl(poly[geo.ix + 1].x)
                /\ geo.y = Dbl(poly[geo.ix + 1].y)

\* C11 witness: centroid has returned (0.5, 0.5) for the unit square on an L0
\* grid
C11_Witness ==
    /\ geo.name = "centroid"
    /\ geo.parameterization = "L0"
    /\ poly = UnitSquare
    /\ DblEq(geo.x, TimesHalf(1))
    /\ DblEq(geo.y, TimesHalf(1))

\* centroid has returned the coordinates of the last vertex of a cell on an L1
\* grid
C11_WitnessL1 ==
    /\ geo.name = "centroid"
    /\ geo.parameterization = "L1"
    /\ geo.ix = 3
    /\ geo.x = Dbl(2)

\* the realized cells whose index is pos
CellsAt(g, pos) == {c \in DOMAIN g._cells : g._cells[c].index = pos}

\* what C12 says of the vector: length ncells_full(), the stored area at the
\* index of every realized cell, the missing sentinel elsewhere
NativeAreasAsStated(g, area) ==
    /\ DOMAIN area = 0..(ncells_full(g) - 1)
    /\ \A c \in DOMAIN g._cells :
            /\ g._cells[c].index \in DOMAIN area
            /\ area[g._cells[c].index] = Dbl(g._cells[c].area)
    /\ \A pos \in DOMAIN area : CellsAt(g, pos) = {} => area[pos] = nan

\* C12 as stated: on every grid built by add_cell and filter_cells
\* get_native_areas succeeds and returns the vector described.
C12_NativeAreasAlways ==
    (op.name = "get_native_areas") =>
        /\ op.err = "ok"
        /\ NativeAreasAsStated(grid, op.area)

\* C12 amended: get_native_areas succeeds exactly when every realized cell
\* index is smaller than ncells_full(), and then returns a vector of length
\* ncells_full() with the stored area at the index of every realized cell and
\* the missing sentinel elsewhere; otherwise it fails with out_of_range.
C12_NativeAreasInRange ==
    (op.name = "get_native_areas") =>
        /\ (op.err = "ok") <=>
                (\A c \in DOMAIN grid._cells :
                        grid._cells[c].index < ncells_full(grid))
        /\ (op.err = "ok") => NativeAreasAsStated(grid, op.area)
        /\ (op.err # "ok") => op.err = "out_of_range"

\* C12 witness: get_native_areas has returned a vector with the area of cell 1
\* and the missing sentinel at position 0, whose cell filter_cells removed
C12_Witness ==
    /\ op.name = "get_native_areas"
    /\ op.err = "ok"
    /\ DOMAIN op.area = 0..1
    /\ op.area[0] = nan
    /\ op.area[1] = Dbl(3)

\* C13: in a record written for a grid with m realized cells,
\* cells.vertex_refs_start has m + 1 entries, starts at 0, is non-decreasing,
\* ends with the length of cells.vertex_refs (the reference count declared in
\* the define phase), and the k-th slice of cells.vertex_refs is the ordered
\* vertex-index list of the k-th cell in ascending cell-index order.
C13_VertexRefsStart ==
    (nc # <<>>) =>
        LET rec == nc[1]
            start == rec.vars.cells_vertex_refs_start
            refs == rec.vars.cells_vertex_refs
            m == ncells_realized(grid)
            cells == CellList(grid)
        IN  /\ Len(start) = m + 1
            /\ start[1] = 0
            /\ \A k \in 1..m : start[k] <= start[k + 1]
            /\ start[m + 1] = Len(refs)
            /\ Len(refs) = rec.dims.cells_num_vertex_refs
            /\ \A k \in 1..m :
                    /\ cells[k].index = rec.vars.cells_index[k]
                    /\ \A a \in 1..(k - 1) : cells[a].index < cells[k].index
                    /\ SubSeq(refs, start[k] + 1, start[k + 1]) =
                            [n \in 1..Len(cells[k].verts) |-> cells[k].verts[n].index]

\* C13 witness: a record of two cells, written in the opposite of their
\* insertion order, the first with no vertex and the second with two
C13_Witness ==
    /\ nc # <<>>
    /\ op.name = "to_netcdf"
    /\ nc[1].vars.cells_vertex_refs_start = <<0, 0, 2>>
    /\ nc[1].vars.cells_vertex_refs = <<1, 0>>
    /\ nc[1].vars.cells_ijk = <<0, 0, 0, 1, 2, 3>>

\* the file refers to a vertex index its vertices.index table does not list
HasDangling(rec) ==
    \E pos \in 1..Len(rec.vars.cells_vertex_refs) :
        rec.vars.cells_vertex_refs[pos] \notin Range(rec.vars.vertices_index)

DecodePcs == {"read_info", "read_vertices", "read_cells", "done"}

\* C14: read_from_netcdf decodes all vertices before any cell; when an entry of
\* cells.vertex_refs is absent from the decoded vertices.index table the decode
\* ends with DanglingReference, and no cell holding a null vertex reference is
\* ever added to the grid.
C14_DanglingReference ==
    (io.pc \in DecodePcs) =>
        /\ (ncells_realized(grid2) > 0) =>
                /\ io.pc \in {"read_cells", "done"}
                /\ nvertices_realized(grid2) = Len(nc[1].vars.vertices_index)
        /\ \A c \in DOMAIN grid2._cells :
                NullVertex \notin Range(grid2._cells[c].verts)
        /\ (io.pc = "done" /\ HasDangling(nc[1])) => io.err = "DanglingReference"

\* read_from_netcdf has returned normally on a file with a dangling reference
C14_Reached ==
    /\ io.pc = "done"
    /\ io.err = "ok"
    /\ HasDangling(nc[1])
    /\ \E c \in DOMAIN grid2._cells : NullVertex \in Range(grid2._cells[c].verts)

\* (a.x, a.y) is lexicographically smaller than (b.x, b.y)
LexLess(a, b) == a.x < b.x \/ (a.x = b.x /\ a.y < b.y)

\* C15: after sort_renumber_vertices on a grid with n vertices the index
\* fields are exactly 0..n-1, a vertex with lexicographically smaller (x, y)
\* has the smaller index, and when the coordinates are pairwise distinct the
\* index of a vertex is the number of vertices with smaller coordinates
\* (whatever the insertion order and the previous indices).
C15_SortRenumber ==
    [][op'.name = "sort_renumber_vertices" =>
        LET old == grid._vertices
            new == grid'._vertices
            n == Cardinality(DOMAIN old)
        IN  /\ DOMAIN new = DOMAIN old
            /\ \A v \in DOMAIN new :
                    new[v].x = old[v].x /\ new[v].y = old[v].y
            /\ {new[v].index : v \in DOMAIN new} = 0..(n - 1)
            /\ \A a, b \in DOMAIN new :
                    LexLess(new[a], new[b]) => new[a].index < new[b].index
            /\ (\A a, b \in DOMAIN new :
                    a # b => (LexLess(new[a], new[b]) \/ LexLess(new[b], new[a])))
                => \A v \in DOMAIN new :
                        new[v].index =
                            Cardinality({a \in DOMAIN new : LexLess(new[a], new[v])})]_vars

\* C15 witness: sort_renumber_vertices has exchanged the indices of two
\* vertices that differ in y alone
C15_Witness ==
    /\ op.name = "sort_renumber_vertices"
    /\ DOMAIN grid._vertices = {0, 1}
    /\ grid._vertices[0] = [index |-> 1, x |-> 0, y |-> 1]
    /\ grid._vertices[1] = [index |-> 0, x |-> 0, y |-> 0]

EncodePcs ==
    {"open", "define", "gridd", "write_vertices", "write_cells", "close",
     "return", "unwind", "returned"}

\* the fields of the file that hold at least one value
FieldsWritten(out) == {f \in DOMAIN out : out[f] # <<>>}

\* what holds at every point of an execution of to_netcdf
ToNetcdfPhasesKept ==
    (io.pc \in EncodePcs) =>
        /\ (FieldsWritten(io.out) # {} \/ io.runs > 0) =>
                /\ io.dims # <<>>
                /\ FieldsWritten(io.out) \subseteq io.declared
                /\ DeclaredVars \subseteq io.declared
        /\ io.runs <= 1
        /\ (io.pc \in {"close", "return", "unwind", "returned"}) => io.runs = 1
        /\ (io.pc \in {"close", "return"}) => io.out = netcdf_write(grid)
        /\ (io.pc = "returned") => ~io.is_open

\* C16: in every execution of to_netcdf all fields and dimensions are declared
\* before any value is written, the writer netcdf_define returned is executed
\* exactly once, after the define phase, and the file is eventually closed on
\* every exit path, also when the writer fails partway.
C16_ToNetcdfPhases ==
    /\ []ToNetcdfPhasesKept
    /\ <>(io.pc = "returned" /\ ~io.is_open)

\* C16 witness: to_netcdf was left by an exception after the writer had
\* written a vertex and no cell, and the file is closed
C16_Witness ==
    /\ io.pc = "returned"
    /\ io.err = "exception"
    /\ ~io.is_open
    /\ io.runs = 1
    /\ Len(io.out.vertices_index) = 1
    /\ io.out.cells_vertex_refs_start = <<>>
    /\ ncells_realized(grid) = 2

\* the index fields of the realized entities the parameterization selects
SelectedIndices(g, parameterization) ==
    IF parameterization = "L1"
    THEN {g._vertices[v].index : v \in DOMAIN g._vertices}
    ELSE {g._cells[c].index : c \in DOMAIN g._cells}

\* every realized index of the selected entity set is smaller than ndata()
IndicesBelowNdata(g, parameterization) ==
    \A index \in SelectedIndices(g, parameterization) :
        index < ndata(g, parameterization)

\* C17 as stated: ndata() is the full-domain count the parameterization
\* selects, and in every state reachable by add_vertex / add_cell and
\* filter_cells every realized index of the selected set is smaller than it.
C17_NdataBoundsIndices ==
    /\ (op.name = "ndata") =>
            op.ret = (IF op.parameterization = "L1" THEN nvertices_full(grid)
                      ELSE ncells_full(grid))
    /\ \A parameterization \in Parameterizations :
            IndicesBelowNdata(grid, parameterization)

\* C17 amended: ndata() returns nvertices_full() when the parameterization is
\* L1 and ncells_full() otherwise; filter_cells leaves ndata() unchanged and,
\* when every realized index of the selected set was smaller than ndata()
\* before it, that is still so after it (a realized index can be >= ndata():
\* an explicit index is not bounded by the count).
C17_NdataFullCount ==
    [][/\ (op'.name = "ndata") =>
            op'.ret = (IF op'.parameterization = "L1" THEN nvertices_full(grid')
                       ELSE ncells_full(grid'))
       /\ (op'.name = "filter_cells") =>
            \A parameterization \in Parameterizations :
                /\ ndata(grid', parameterization) = ndata(grid, parameterization)
                /\ IndicesBelowNdata(grid, parameterization) =>
                        IndicesBelowNdata(grid', parameterization)]_vars

\* C17 witness: on a filtered grid of full counts 2 (vertices) and 1 (cells) of
\* which nothing is realized, ndata() has returned the vertex count for L1
C17_Witness ==
    /\ op.name = "ndata"
    /\ op.parameterization = "L1"
    /\ op.ret = 2
    /\ ncells_full(grid) = 1
    /\ nvertices_realized(grid) = 0

Ascending(seq) == \A a, b \in 1..Len(seq) : a < b => seq[a] < seq[b]

\* C18: every vertex and every cell is stored under a key equal to its current
\* index field, so looking up index k gives the entity whose index is k, and
\* the codec, which sorts by key, writes the index values in ascending order.
C18_KeyIsIndex ==
    /\ \A key \in DOMAIN grid._vertices : grid._vertices[key].index = key
    /\ \A key \in DOMAIN grid._cells : grid._cells[key].index = key
    /\ \A v \in DOMAIN grid._vertices :
            LET found == get_vertex(grid, grid._vertices[v].index)
            IN  found # NullVertex /\ grid._vertices[found].index = grid._vertices[v].index
    /\ Ascending(netcdf_write(grid).vertices_index)
    /\ Ascending(netcdf_write(grid).cells_index)

\* sort_renumber_vertices has left a vertex under a key that is not its index
C18_Reached ==
    /\ op.name = "sort_renumber_vertices"
    /\ \E key \in DOMAIN grid._vertices : grid._vertices[key].index # key
    /\ ~Ascending(netcdf_write(grid).vertices_index)

\* C19: when add_cell or add_vertex fails with DuplicateIndex the Grid is as it
\* was before the call: the stored entities keep their contents, the realized
\* counts and _max_realized_cell_index / _max_realized_vertex_index are
\* unchanged.
C19_FailedAddKeepsGrid ==
    [][(op'.name \in AddNames /\ op'.err = "DuplicateIndex") =>
        /\ grid'._vertices = grid._vertices
        /\ grid'._cells = grid._cells
        /\ ncells_realized(grid') = ncells_realized(grid)
        /\ nvertices_realized(grid') = nvertices_realized(grid)
        /\ grid'._max_realized_cell_index = grid._max_realized_cell_index
        /\ grid'._max_realized_vertex_index = grid._max_realized_vertex_index]_vars

\* an insertion has failed with DuplicateIndex
C19_Reached ==
    /\ op.name = "add_vertex"
    /\ op.err = "DuplicateIndex"
    /\ nvertices_realized(grid) = 1

\* C20: whatever Grid operations (add_vertex, add_cell, filter_cells) are
\* performed between netcdf_define and the execution of the writer it
\* returned, the writer writes to each field as many entries as the dimension
\* declared for it in the define phase.
C20_WriterMatchesDims ==
    (io.pc = "close") =>
        LET dims == io.dims[1]
        IN  /\ Len(io.out.vertices_index) = dims.vertices_num_realized
            /\ Len(io.out.vertices_xy) = 2 * dims.vertices_num_realized
            /\ Len(io.out.cells_index) = dims.cells_num_realized
            /\ Len(io.out.cells_ijk) = 3 * dims.cells_num_realized
            /\ Len(io.out.cells_area) = dims.cells_num_realized
            /\ Len(io.out.cells_vertex_refs_start) = dims.cells_num_realized_plus1
            /\ Len(io.out.cells_vertex_refs) = dims.cells_num_vertex_refs

\* the writer has written two vertices into a dimension declared with one
C20_Reached ==
    /\ io.pc = "close"
    /\ io.dims[1].vertices_num_realized = 1
    /\ Len(io.out.vertices_index) = 2
    /\ op.name = "add_vertex"

====
